---- MODULE Spec2Model ----
(***************************************************************************)
(* Model of scripts/parse_weather_data_v2.py (and, where noted, of         *)
(* scripts/parse_weather_data.py): the spreadsheet-to-JSON pipeline that   *)
(* aggregates sensor readings per test point and builds the animation feed.*)
(***************************************************************************)
EXTENDS Integers, Sequences, FiniteSets, TLC

(***************************************************************************)
(* Python floats.  A cell reading is an IEEE-754 binary64 value.  A        *)
(* non-negative double x that is zero or at least 2^-7 is an integer       *)
(* multiple of 2^-59; it is held as that integer, written as a sequence of *)
(* 15-bit limbs, least significant first, without high zero limbs (TLC's   *)
(* own integers are 32 bits wide, the significand of a double is 53).      *)
(* Every arithmetic step rounds to nearest, ties to even, at 53            *)
(* significant bits, as the hardware does.                                 *)
(***************************************************************************)
Limb == 2^15

Min2(a, b) == IF a <= b THEN a ELSE b

RECURSIVE BNorm(_)
BNorm(a) ==
    IF Len(a) > 0 /\ a[Len(a)] = 0 THEN BNorm(SubSeq(a, 1, Len(a) - 1)) ELSE a

RECURSIVE BFromInt(_)
BFromInt(n) ==
    IF n = 0 THEN <<>> ELSE <<n % Limb>> \o BFromInt(n \div Limb)

BLimb(a, i) == IF i <= Len(a) THEN a[i] ELSE 0

RECURSIVE BAddC(_, _, _, _)
BAddC(a, b, i, c) ==
    IF i > Len(a) /\ i > Len(b)
    THEN (IF c = 0 THEN <<>> ELSE <<c>>)
    ELSE LET s == BLimb(a, i) + BLimb(b, i) + c
         IN  <<s % Limb>> \o BAddC(a, b, i + 1, s \div Limb)

BAdd(a, b) ==
    IF a = <<>> THEN b ELSE IF b = <<>> THEN a ELSE BAddC(a, b, 1, 0)

RECURSIVE BMulC(_, _, _, _)
BMulC(a, k, i, c) ==
    IF i > Len(a)
    THEN (IF c = 0 THEN <<>> ELSE <<c>>)
    ELSE LET s == a[i] * k + c
         IN  <<s % Limb>> \o BMulC(a, k, i + 1, s \div Limb)

\* a * k for 0 <= k < 2^15
BMulSmall(a, k) == IF a = <<>> THEN <<>> ELSE BNorm(BMulC(a, k, 1, 0))

RECURSIVE BDivR(_, _, _, _)
BDivR(a, d, i, r) ==
    IF i = 0
    THEN [q |-> <<>>, r |-> r]
    ELSE LET cur  == r * Limb + a[i]
             rest == BDivR(a, d, i - 1, cur % d)
         IN  [q |-> Append(rest.q, cur \div d), r |-> rest.r]

\* quotient and remainder of a by d, 1 <= d <= 2^15
BDivSmall(a, d) ==
    IF a = <<>> THEN [q |-> <<>>, r |-> 0]
    ELSE LET x == BDivR(a, d, Len(a), 0) IN [q |-> BNorm(x.q), r |-> x.r]

RECURSIVE IntBitLen(_)
IntBitLen(n) == IF n = 0 THEN 0 ELSE 1 + IntBitLen(n \div 2)

BBitLen(a) ==
    IF Len(a) = 0 THEN 0 ELSE 15 * (Len(a) - 1) + IntBitLen(a[Len(a)])

BIsOdd(a) == Len(a) > 0 /\ a[1] % 2 = 1

RECURSIVE BShl(_, _)
BShl(a, k) ==
    IF k = 0 \/ a = <<>> THEN a
    ELSE LET j == Min2(k, 14) IN BShl(BMulSmall(a, 2^j), k - j)

\* a shifted right by k bits, and whether a one bit was shifted out
RECURSIVE BShr(_, _)
BShr(a, k) ==
    IF k = 0 \/ a = <<>> THEN [q |-> a, sticky |-> FALSE]
    ELSE LET j     == Min2(k, 15)
             first == BDivSmall(a, 2^j)
             rest  == BShr(first.q, k - j)
         IN  [q |-> rest.q, sticky |-> rest.sticky \/ first.r # 0]

RECURSIVE BLessFrom(_, _, _)
BLessFrom(a, b, i) ==
    IF i = 0 THEN FALSE
    ELSE IF a[i] # b[i] THEN a[i] < b[i]
    ELSE BLessFrom(a, b, i - 1)

BLess(a, b) ==
    IF Len(a) # Len(b) THEN Len(a) < Len(b) ELSE BLessFrom(a, b, Len(a))

\* round-half-even of q / 2^k to an integer
BRoundShift(q, sticky0, k) ==
    LET sh == BShr(q, k - 1)
        hd == BDivSmall(sh.q, 2)
        up == hd.r = 1 /\ (sh.sticky \/ sticky0 \/ BIsOdd(hd.q))
    IN  IF up THEN BAdd(hd.q, <<1>>) ELSE hd.q

\* The double nearest to n/d units (ties to even): the result of one
\* correctly rounded IEEE operation whose exact value is n/d units.  The
\* quotient is taken with one guard bit and cut to 53 significant bits.
FRound(n, d) ==
    IF n = <<>> THEN <<>> ELSE
    LET dv == BDivSmall(BMulSmall(n, 2), d)
        s  == IF BBitLen(dv.q) > 54 THEN BBitLen(dv.q) - 53 ELSE 1
    IN  BShl(BRoundShift(dv.q, dv.r # 0, s), s - 1)

\* float("k/den") for a decimal literal: the cell value openpyxl hands over
FromDecimal(k, den) == FRound(BShl(BFromInt(k), 59), den)

PosInf == <<-1>>

NegInf == <<-2>>

FLess(a, b) ==
    IF a = b THEN FALSE
    ELSE IF a = NegInf \/ b = PosInf THEN TRUE
    ELSE IF a = PosInf \/ b = NegInf THEN FALSE
    ELSE BLess(a, b)

FLeq(a, b) == a = b \/ FLess(a, b)

\* Python's min(a, b) and max(a, b): the first argument unless the second
\* is strictly smaller (larger)
PyMin(a, b) == IF FLess(b, a) THEN b ELSE a

PyMax(a, b) == IF FLess(a, b) THEN b ELSE a

\* a + b on floats
FAdd(a, b) == FRound(BAdd(a, b), 1)

\* a / c for a float a and an int c
FDivInt(a, c) == FRound(a, c)

\* The number of hundredths nearest to x (ties on the exact value of the
\* double go to even), and round(x, 2): the double nearest to that decimal.
Hundredths(x) ==
    IF x = <<>> THEN <<>> ELSE BRoundShift(BMulSmall(x, 100), FALSE, 59)

Round2(x) == FRound(BShl(Hundredths(x), 59), 100)


FZero == <<>>

(***************************************************************************)
(* Python values.  A cell value (openpyxl's cell.value) is None, a str, an *)
(* int, a float, a datetime or a time.  A str is a sequence of characters. *)
(***************************************************************************)
None == [t |-> "none"]

Float(v) == [t |-> "float", v |-> v]

PyInt(n) == [t |-> "int", v |-> n]

Str(s) == [t |-> "str", s |-> s]

DateTime(mo, d, h, mi) ==
    [t |-> "datetime", month |-> mo, day |-> d, hour |-> h, minute |-> mi]

TimeOfDay(h, mi) == [t |-> "time", hour |-> h, minute |-> mi]

\* An exception leaving a function
Raised(e) == [t |-> "raise", e |-> e]

\* isinstance(v, (int, float))
IsNumber(v) == v.t \in {"int", "float"}

\* bool(v) for None, a number or a str
Truthy(v) ==
    CASE v.t = "none" -> FALSE
      [] v.t = "int" -> v.v # 0
      [] v.t = "float" -> v.v # FZero
      [] v.t = "str" -> v.s # <<>>
      [] OTHER -> TRUE

\* a or b
PyOr(a, b) == IF Truthy(a) THEN a ELSE b

\* The double a number compares and adds as
AsDouble(v) == IF v.t = "int" THEN BShl(BFromInt(v.v), 59) ELSE v.v

\* int(x) of a non-negative float: truncation
RECURSIVE BToInt(_)
BToInt(a) == IF a = <<>> THEN 0 ELSE a[1] + Limb * BToInt(Tail(a))

FloatToInt(x) == BToInt(BShr(x, 59).q)

Range(s) == {s[i] : i \in 1..Len(s)}

Digits == <<"0", "1", "2", "3", "4", "5", "6", "7", "8", "9">>

IsDigit(c) == c \in Range(Digits)

DigitVal(c) == CHOOSE i \in 0..9 : Digits[i + 1] = c

Uppers ==
    <<"A", "B", "C", "D", "E", "F", "G", "H", "I", "J", "K", "L", "M",
      "N", "O", "P", "Q", "R", "S", "T", "U", "V", "W", "X", "Y", "Z">>

Lowers ==
    <<"a", "b", "c", "d", "e", "f", "g", "h", "i", "j", "k", "l", "m",
      "n", "o", "p", "q", "r", "s", "t", "u", "v", "w", "x", "y", "z">>

LowerChar(c) ==
    IF \E i \in 1..26 : Uppers[i] = c
    THEN Lowers[CHOOSE i \in 1..26 : Uppers[i] = c]
    ELSE c

\* str.lower()
PyLower(s) == [i \in 1..Len(s) |-> LowerChar(s[i])]

\* Code-point order of the characters a timestamp key is made of
CodeOrder == <<" ", "+", "-">> \o Digits \o <<":", "_", "x">>

CharCode(c) == CHOOSE i \in 1..Len(CodeOrder) : CodeOrder[i] = c

\* s < t for Python strings: lexicographic by code point
RECURSIVE StrLess(_, _)
StrLess(s, t) ==
    IF t = <<>> THEN FALSE
    ELSE IF s = <<>> THEN TRUE
    ELSE IF s[1] # t[1] THEN CharCode(s[1]) < CharCode(t[1])
    ELSE StrLess(Tail(s), Tail(t))

RECURSIVE DigitsOf(_)
DigitsOf(n) ==
    IF n < 10 THEN <<Digits[n + 1]>>
    ELSE DigitsOf(n \div 10) \o <<Digits[(n % 10) + 1]>>

\* format(n, "02d"): sign-aware zero padding to width 2
Format02d(n) ==
    IF n < 0 THEN <<"-">> \o DigitsOf(-n)
    ELSE IF n < 10 THEN <<"0">> \o DigitsOf(n)
    ELSE DigitsOf(n)

RECURSIVE StripLeft(_)
StripLeft(s) ==
    IF s # <<>> /\ s[1] = " " THEN StripLeft(Tail(s)) ELSE s

RECURSIVE StripRight(_)
StripRight(s) ==
    IF s # <<>> /\ s[Len(s)] = " "
    THEN StripRight(SubSeq(s, 1, Len(s) - 1)) ELSE s

RECURSIVE DigitsValue(_, _)
DigitsValue(s, acc) ==
    IF s = <<>> THEN acc
    ELSE IF s[1] = "_" THEN DigitsValue(Tail(s), acc)
    ELSE DigitsValue(Tail(s), 10 * acc + DigitVal(s[1]))

\* int(s) for a str s: surrounding blanks, an optional sign, then decimal
\* digits that single underscores may separate; anything else is a
\* ValueError.
PyIntOfStr(s) ==
    LET u    == StripRight(StripLeft(s))
        sgn  == u # <<>> /\ u[1] \in {"+", "-"}
        body == IF sgn THEN Tail(u) ELSE u
        ok   == /\ body # <<>>
                /\ \A i \in 1..Len(body) : IsDigit(body[i]) \/ body[i] = "_"
                /\ IsDigit(body[1]) /\ IsDigit(body[Len(body)])
                /\ \A i \in 1..(Len(body) - 1) :
                       ~(body[i] = "_" /\ body[i + 1] = "_")
        mag  == DigitsValue(body, 0)
    IN  IF ~ok THEN Raised("ValueError")
        ELSE PyInt(IF sgn /\ u[1] = "-" THEN -mag ELSE mag)

\* The index of the first c in s at or after i, or 0
RECURSIVE FindFrom(_, _, _)
FindFrom(s, c, i) ==
    IF i > Len(s) THEN 0 ELSE IF s[i] = c THEN i ELSE FindFrom(s, c, i + 1)

\* s.split(c)[0] and s.split(c)[1], for s holding at least one c
SplitPart0(s, c) == SubSeq(s, 1, FindFrom(s, c, 1) - 1)

SplitPart1(s, c) ==
    LET a == FindFrom(s, c, 1)
        b == FindFrom(s, c, a + 1)
    IN  SubSeq(s, a + 1, IF b = 0 THEN Len(s) ELSE b - 1)

\* (month, day) of a proleptic Gregorian ordinal (day 1 is 0001-01-01)
OrdinalToMonthDay(ord) ==
    LET z   == ord + 305
        era == z \div 146097
        doe == z - era * 146097
        yoe == (doe - doe \div 1460 + doe \div 36524 - doe \div 146096) \div 365
        doy == doe - (365 * yoe + yoe \div 4 - yoe \div 100)
        mp  == (5 * doy + 2) \div 153
    IN  [month |-> IF mp < 10 THEN mp + 3 ELSE mp - 9,
         day   |-> doy - (153 * mp + 2) \div 5 + 1]

\* datetime(1899, 12, 30).toordinal(), and datetime.max's ordinal
ExcelEpochOrdinal == 693594

MaxOrdinal == 3652059

\* (excel_epoch + timedelta(days=n)).strftime("%m-%d"); a date outside
\* years 1..9999 raises OverflowError
ExcelDateStr(n) ==
    IF ExcelEpochOrdinal + n < 1 \/ ExcelEpochOrdinal + n > MaxOrdinal
    THEN Raised("OverflowError")
    ELSE LET md == OrdinalToMonthDay(ExcelEpochOrdinal + n)
         IN  Str(Format02d(md.month) \o <<"-">> \o Format02d(md.day))

\* Lines 75-82: the time half, or None
time_str(time_val) ==
    IF time_val.t = "time"
    THEN Str(Format02d(time_val.hour) \o <<":">> \o Format02d(time_val.minute))
    ELSE IF time_val.t = "str" /\ FindFrom(time_val.s, ":", 1) # 0
    THEN LET h == PyIntOfStr(SplitPart0(time_val.s, ":"))
             m == PyIntOfStr(SplitPart1(time_val.s, ":"))
         IN  IF h.t = "raise" \/ m.t = "raise" THEN None
             ELSE Str(Format02d(h.v) \o <<":">> \o Format02d(m.v))
    ELSE None

\* Lines 84-91: the date half, or None, or the exception of line 90
date_str(date_val) ==
    IF date_val.t = "datetime"
    THEN Str(Format02d(date_val.month) \o <<"-">> \o Format02d(date_val.day))
    ELSE IF IsNumber(date_val)
    THEN ExcelDateStr(IF date_val.t = "int" THEN date_val.v
                      ELSE FloatToInt(date_val.v))
    ELSE None

\* JoinHalves returning whichever half there is, the date half too
JoinHalvesEither(ds, ts) ==
    IF Truthy(ds) /\ Truthy(ts) THEN Str(ds.s \o <<" ">> \o ts.s)
    ELSE IF Truthy(ts) THEN ts
    ELSE IF Truthy(ds) THEN ds
    ELSE None

\* Lines 93-97: the halves put together
JoinHalves(ds, ts) ==
    IF Truthy(ds) /\ Truthy(ts) THEN Str(ds.s \o <<" ">> \o ts.s)
    ELSE IF Truthy(ts) THEN ts
    ELSE None

normalize_timestamp(date_val, time_val) ==
    IF time_val.t = "datetime"
    THEN Str(Format02d(time_val.month) \o <<"-">> \o Format02d(time_val.day)
             \o <<" ">> \o Format02d(time_val.hour) \o <<":">>
             \o Format02d(time_val.minute))
    ELSE LET ts == time_str(time_val)
             ds == date_str(date_val)
         IN  IF ds.t = "raise" THEN ds ELSE JoinHalves(ds, ts)

(***************************************************************************)
(* The static tables.  lat and lng are the decimal literals of the source  *)
(* in units of 10^-4 degree; unit strings are written in ASCII.            *)
(***************************************************************************)
Coord(lat, lng, name, type) ==
    [lat |-> lat, lng |-> lng, name |-> name, type |-> type]

TESTPOINT_COORDINATES ==
    <<Coord(224160, 1142077, "Near University Station", "HOBO MX"),
      Coord(224165, 1142083, "East Campus Road", "HOBO MX"),
      Coord(224169, 1142068, "Central Avenue", "HOBO MX"),
      Coord(224172, 1142032, "Northwest Campus", "HOBO MX"),
      Coord(224161, 1142047, "West Side", "HOBO MX"),
      Coord(224155, 1142044, "Southwest Area", "HOBO MX"),
      Coord(224156, 1142056, "Central South", "HOBO MX"),
      Coord(224158, 1142065, "Campus Center", "HOBO MX"),
      Coord(224160, 1142071, "Weather Station 1", "Weather Station"),
      Coord(224167, 1142054, "Weather Station 2", "Weather Station"),
      Coord(224167, 1142054, "Thermocouple 1", "Thermocouple"),
      Coord(224160, 1142071, "Thermocouple 2", "Thermocouple"),
      Coord(224160, 1142071, "Radiation Tracker", "Radiation Tracker")>>

DEVICE_INFO ==
    [x \in {"HOBO MX", "Weather Station", "Thermocouple", "Radiation Tracker"} |->
        CASE x = "HOBO MX" ->
                 [sensors |-> <<"Temperature", "RH", "Dew Point", "Light">>,
                  color |-> "#3b82f6"]
          [] x = "Weather Station" ->
                 [sensors |-> <<"Temp", "RH", "Globe Temp", "Wind Speed",
                                "Wind Dir", "Solar Rad", "PM2.5", "PM10">>,
                  color |-> "#22c55e"]
          [] x = "Thermocouple" ->
                 [sensors |-> <<"Surface Temperature">>, color |-> "#f59e0b"]
          [] x = "Radiation Tracker" ->
                 [sensors |-> <<"DHI", "DNI", "GHI">>, color |-> "#a855f7"]]

ParamInfo(param, unit) == [param |-> param, unit |-> unit]

sheet_param_mapping ==
    [x \in {"HOBO_Temp", "HOBO_RH", "HOBO_Light", "HOBO_Dew_point",
            "Thermocouple_Temp", "GlobE_temp", "Wind_direction", "Wind_speed",
            "Solar_radiation", "Air_temp", "RH", "PM10", "PM25", "Pressure",
            "Radiation"} |->
        CASE x = "HOBO_Temp" -> ParamInfo("temperature", "degC")
          [] x = "HOBO_RH" -> ParamInfo("relative_humidity", "%")
          [] x = "HOBO_Light" -> ParamInfo("light", "lux")
          [] x = "HOBO_Dew_point" -> ParamInfo("dew_point", "degC")
          [] x = "Thermocouple_Temp" -> ParamInfo("surface_temperature", "degC")
          [] x = "GlobE_temp" -> ParamInfo("globe_temperature", "degC")
          [] x = "Wind_direction" -> ParamInfo("wind_direction", "deg")
          [] x = "Wind_speed" -> ParamInfo("wind_speed", "m/s")
          [] x = "Solar_radiation" -> ParamInfo("solar_radiation", "W/m2")
          [] x = "Air_temp" -> ParamInfo("air_temperature", "degC")
          [] x = "RH" -> ParamInfo("rh_station", "%")
          [] x = "PM10" -> ParamInfo("pm10", "ug/m3")
          [] x = "PM25" -> ParamInfo("pm25", "ug/m3")
          [] x = "Pressure" -> ParamInfo("pressure", "kPa")
          [] x = "Radiation" -> ParamInfo("radiation", "W/m2")]

\* sheet_name.lower() for the sheet names outside the table that the
\* workbooks below use (a sheet name is held as one atomic string)
SheetNameLower(name) ==
    CASE name = "Temperature" -> "temperature"
      [] name = "Notes" -> "notes"
      [] OTHER -> name

\* sheet_param_mapping.get(sheet_name, {"param": sheet_name.lower(), "unit": ""})
ParamOfSheet(name) ==
    IF name \in DOMAIN sheet_param_mapping
    THEN sheet_param_mapping[name]
    ELSE ParamInfo(SheetNameLower(name), "")

(***************************************************************************)
(* Dictionaries are functions; the empty dictionary is the empty function. *)
(***************************************************************************)
EmptyDict == <<>>

Put(f, k, v) == [x \in (DOMAIN f) \cup {k} |-> IF x = k THEN v ELSE f[x]]

\* d.get(k)
Get(d, k) == IF k \in DOMAIN d THEN d[k] ELSE None

(***************************************************************************)
(* extract_testpoint_number: re.search(r'Testpoint[-_]?(\d+)', header,     *)
(* re.IGNORECASE), then int() of the group.                                *)
(***************************************************************************)
PatternWord == <<"t", "e", "s", "t", "p", "o", "i", "n", "t">>

\* Where the digit group starts when the pattern matches at position i of
\* h, or 0 when it does not match there
GroupStartAt(h, i) ==
    IF i + 8 > Len(h) \/ PyLower(SubSeq(h, i, i + 8)) # PatternWord THEN 0
    ELSE LET p == i + 9
         IN  IF p + 1 <= Len(h) /\ h[p] \in {"-", "_"} /\ IsDigit(h[p + 1])
             THEN p + 1
             ELSE IF p <= Len(h) /\ IsDigit(h[p]) THEN p
             ELSE 0

\* The end of the greedy digit run that starts at j
RECURSIVE DigitRunEnd(_, _)
DigitRunEnd(h, j) ==
    IF j + 1 <= Len(h) /\ IsDigit(h[j + 1]) THEN DigitRunEnd(h, j + 1) ELSE j

extract_testpoint_number(header) ==
    LET hits == {i \in 1..Len(header) : GroupStartAt(header, i) # 0}
    IN  IF hits = {} THEN None
        ELSE LET i == CHOOSE k \in hits : \A l \in hits : k <= l
                 j == GroupStartAt(header, i)
             IN  PyInt(DigitsValue(SubSeq(header, j, DigitRunEnd(header, j)), 0))

\* str(val) if val else "" for a header cell holding a str or nothing
HeaderText(val) == IF Truthy(val) THEN val.s ELSE <<>>

\* tp_columns: the (col_idx, tp_num) pairs in column order, col_idx from 0
RECURSIVE FindTpColumns(_, _)
FindTpColumns(hs, col_idx) ==
    IF col_idx >= Len(hs) THEN <<>>
    ELSE LET tp_num == extract_testpoint_number(hs[col_idx + 1])
         IN  (IF Truthy(tp_num) THEN <<[col_idx |-> col_idx, tp_num |-> tp_num.v]>>
              ELSE <<>>)
             \o FindTpColumns(hs, col_idx + 1)

\* Whether some header is exactly "date" ("time") in any letter case
HasColumn(hs, word) == \E i \in 1..Len(hs) : PyLower(hs[i]) = word

(***************************************************************************)
(* The state of one run of main().                                         *)
(***************************************************************************)
VARIABLES
    pc,                 \* where the run is
    error,              \* the exception that ended the run, or None
    sheetnames,         \* the names of the sheets opened so far, in order
    param_name,         \* parse_excel_file's locals for the current sheet
    param_unit,
    headers,
    max_row,
    tp_columns,
    row,                \* ... and for the current row
    date_val,
    time_val,
    colPos,             \* position in tp_columns of the column read next
    testpoints,
    all_timeseries,
    summary,
    animation_data,
    animation_sampled,
    ts_key,             \* the result of the last normalize_timestamp call
    readings,           \* history: every numeric reading taken, in order
    cells               \* history: the number of test-point cells read

vars ==
    <<pc, error, sheetnames, param_name, param_unit, headers, max_row,
      tp_columns, row, date_val, time_val, colPos, testpoints, all_timeseries,
      summary, animation_data, animation_sampled, ts_key, readings, cells>>

sheetVars == <<sheetnames, param_name, param_unit, headers, max_row, tp_columns>>

outVars == <<summary, animation_data, animation_sampled>>

\* Lines 104-117: one entry per test point of the static table
InitialTestpoints ==
    [tp_num \in DOMAIN TESTPOINT_COORDINATES |->
        LET info == TESTPOINT_COORDINATES[tp_num]
        IN  [id            |-> tp_num,
             name          |-> <<"Testpoint-", tp_num>>,
             location_name |-> info.name,
             lat           |-> info.lat,
             lng           |-> info.lng,
             device_type   |-> info.type,
             device_info   |-> IF info.type \in DOMAIN DEVICE_INFO
                               THEN DEVICE_INFO[info.type] ELSE EmptyDict,
             measurements  |-> EmptyDict,
             timeseries    |-> <<>>]]

\* The row limit of line 162
RowLimit == 3000

\* RowStop with the limit applied to the last row instead of the stop
RowStopInclusive(mr) == Min2(mr, RowLimit) + 1

\* range(2, min(sheet.max_row + 1, 3000)) ends before RowStop
RowStop(mr) == Min2(mr + 1, RowLimit)

InitRun ==
    /\ pc = "sheets"
    /\ error = None
    /\ sheetnames = <<>>
    /\ param_name = "" /\ param_unit = ""
    /\ headers = <<>> /\ max_row = 0 /\ tp_columns = <<>>
    /\ row = 0 /\ date_val = None /\ time_val = None /\ colPos = 0
    /\ testpoints = InitialTestpoints
    /\ all_timeseries = EmptyDict
    /\ summary = None /\ animation_data = None /\ animation_sampled = None
    /\ ts_key = None
    /\ readings = <<>>
    /\ cells = 0

\* Lines 140-162: the next sheet of the workbook is called name, its first
\* row holds hdr_cells and it has mr rows
OpenSheet(name, hdr_cells, mr) ==
    /\ pc = "sheets"
    /\ name \notin Range(sheetnames)
    /\ sheetnames' = Append(sheetnames, name)
    /\ param_name' = ParamOfSheet(name).param
    /\ param_unit' = ParamOfSheet(name).unit
    /\ headers' = [i \in 1..Len(hdr_cells) |-> HeaderText(hdr_cells[i])]
    /\ tp_columns' = FindTpColumns(headers', 0)
    /\ max_row' = mr
    /\ row' = 2
    /\ pc' = IF 2 < RowStop(mr) THEN "row" ELSE "sheets"
    /\ UNCHANGED <<error, date_val, time_val, colPos, testpoints,
                   all_timeseries, ts_key, readings, cells>>
    /\ UNCHANGED outVars

\* After the last test-point column of a row: the next row, or the end of
\* the sheet
NextRowPc == IF row + 1 < RowStop(max_row) THEN "row" ELSE "sheets"

\* Lines 163-171: the Date and Time cells of the row hold d and t (a sheet
\* without such a column leaves None)
ReadRow(d, t) ==
    /\ pc = "row"
    /\ IF tp_columns = <<>>
       THEN /\ row' = row + 1
            /\ pc' = NextRowPc
            /\ colPos' = colPos
            /\ date_val' = None
            /\ time_val' = None
       ELSE /\ row' = row
            /\ pc' = "cell"
            /\ colPos' = 1
            /\ date_val' = IF HasColumn(headers, <<"d", "a", "t", "e">>)
                           THEN d ELSE None
            /\ time_val' = IF HasColumn(headers, <<"t", "i", "m", "e">>)
                           THEN t ELSE None
    /\ UNCHANGED <<error, testpoints, all_timeseries, ts_key, readings, cells>>
    /\ UNCHANGED sheetVars
    /\ UNCHANGED outVars

\* Accumulate without line 193, the count
AccumulateUncounted(ms, value) ==
    LET m == IF param_name \in DOMAIN ms THEN ms[param_name]
             ELSE [unit   |-> param_unit,
                   values |-> <<>>,
                   min    |-> Float(PosInf),
                   max    |-> Float(NegInf),
                   sum    |-> PyInt(0),
                   count  |-> 0]
    IN  Put(ms, param_name,
            [unit   |-> m.unit,
             values |-> Append(m.values, value),
             min    |-> IF FLess(AsDouble(value), AsDouble(m.min)) THEN value ELSE m.min,
             max    |-> IF FLess(AsDouble(m.max), AsDouble(value)) THEN value ELSE m.max,
             sum    |-> Float(FAdd(AsDouble(m.sum), AsDouble(value))),
             count  |-> m.count])

\* Accumulate for the rows that have a timestamp only
AccumulateTimed(ms, value) ==
    IF ~Truthy(normalize_timestamp(date_val, time_val)) THEN ms
    ELSE
    LET m == IF param_name \in DOMAIN ms THEN ms[param_name]
             ELSE [unit   |-> param_unit,
                   values |-> <<>>,
                   min    |-> Float(PosInf),
                   max    |-> Float(NegInf),
                   sum    |-> PyInt(0),
                   count  |-> 0]
    IN  Put(ms, param_name,
            [unit   |-> m.unit,
             values |-> Append(m.values, value),
             min    |-> IF FLess(AsDouble(value), AsDouble(m.min)) THEN value ELSE m.min,
             max    |-> IF FLess(AsDouble(m.max), AsDouble(value)) THEN value ELSE m.max,
             sum    |-> Float(FAdd(AsDouble(m.sum), AsDouble(value))),
             count  |-> m.count + 1])

\* Lines 178-193: the aggregate of (tp_num, param_name) after value
Accumulate(ms, value) ==
    LET m == IF param_name \in DOMAIN ms THEN ms[param_name]
             ELSE [unit   |-> param_unit,
                   values |-> <<>>,
                   min    |-> Float(PosInf),
                   max    |-> Float(NegInf),
                   sum    |-> PyInt(0),
                   count  |-> 0]
    IN  Put(ms, param_name,
            [unit   |-> m.unit,
             values |-> Append(m.values, value),
             min    |-> IF FLess(AsDouble(value), AsDouble(m.min)) THEN value ELSE m.min,
             max    |-> IF FLess(AsDouble(m.max), AsDouble(value)) THEN value ELSE m.max,
             sum    |-> Float(FAdd(AsDouble(m.sum), AsDouble(value))),
             count  |-> m.count + 1])

\* The store of lines 197-202 keeping a value it already holds
StoreTimeseriesFirst(ts, key, tp_num, value) ==
    LET byTp  == IF key \in DOMAIN ts THEN ts[key] ELSE EmptyDict
        byPar == IF tp_num \in DOMAIN byTp THEN byTp[tp_num] ELSE EmptyDict
    IN  IF param_name \in DOMAIN byPar THEN ts
        ELSE Put(ts, key, Put(byTp, tp_num, Put(byPar, param_name, value)))

\* Lines 197-202
StoreTimeseries(ts, key, tp_num, value) ==
    LET byTp  == IF key \in DOMAIN ts THEN ts[key] ELSE EmptyDict
        byPar == IF tp_num \in DOMAIN byTp THEN byTp[tp_num] ELSE EmptyDict
    IN  Put(ts, key, Put(byTp, tp_num, Put(byPar, param_name, value)))

\* After a cell: the next test-point column of the row, or the next row,
\* for which lines 164-165 set date_val and time_val to None again
Advance ==
    IF colPos < Len(tp_columns)
    THEN /\ colPos' = colPos + 1
         /\ row' = row
         /\ pc' = "cell"
         /\ UNCHANGED <<date_val, time_val>>
    ELSE /\ date_val' = None
         /\ time_val' = None /\ colPos' = 0
         /\ row' = row + 1
         /\ pc' = NextRowPc

\* Lines 174-202: the cell of the current row in the next test-point
\* column holds value
ReadCell(value) ==
    /\ pc = "cell"
    /\ cells' = cells + 1
    /\ LET tp_num == tp_columns[colPos].tp_num
       IN  IF value # None /\ IsNumber(value)
           THEN IF tp_num \notin DOMAIN testpoints
                THEN \* testpoints[tp_num] raises KeyError
                     /\ pc' = "aborted"
                     /\ error' = Raised("KeyError")
                     /\ UNCHANGED <<row, colPos, testpoints, all_timeseries,
                                    ts_key, readings, date_val, time_val>>
                ELSE LET key == normalize_timestamp(date_val, time_val)
                     IN  /\ testpoints' =
                                [testpoints EXCEPT ![tp_num].measurements =
                                     Accumulate(@, value)]
                         /\ ts_key' = key
                         /\ readings' = Append(readings,
                                [sheet |-> Len(sheetnames),
                                 row   |-> row,
                                 col   |-> tp_columns[colPos].col_idx,
                                 tp    |-> tp_num,
                                 param |-> param_name,
                                 value |-> value,
                                 ts    |-> key])
                         /\ IF key.t = "raise"
                            THEN /\ pc' = "aborted"
                                 /\ error' = key
                                 /\ UNCHANGED <<row, colPos, all_timeseries,
                                                date_val, time_val>>
                            ELSE /\ all_timeseries' =
                                        IF Truthy(key)
                                        THEN StoreTimeseries(all_timeseries,
                                                 key.s, tp_num, value)
                                        ELSE all_timeseries
                                 /\ error' = error
                                 /\ Advance
           ELSE /\ Advance
                /\ UNCHANGED <<error, testpoints, all_timeseries, ts_key,
                               readings>>
    /\ UNCHANGED sheetVars
    /\ UNCHANGED outVars

\* round(x, 2) for a number: an int is returned as it is
PyRound2(x) == IF x.t = "int" THEN x ELSE Float(Round2(x.v))

\* Lines 206-217: one aggregate, finalized
FinalizeMeasurement(m) ==
    IF m.count > 0
    THEN [unit  |-> m.unit,
          min   |-> PyRound2(m.min),
          max   |-> PyRound2(m.max),
          count |-> m.count,
          avg   |-> Float(Round2(FDivInt(AsDouble(m.sum), m.count)))]
    ELSE [unit  |-> m.unit,
          min   |-> None,
          max   |-> None,
          count |-> m.count,
          avg   |-> None]

\* Lines 204-219: the workbook has no further sheet; finalize and return
Finalize ==
    /\ pc = "sheets"
    /\ sheetnames # <<>>
    /\ testpoints' =
           [tp_num \in DOMAIN testpoints |->
               [testpoints[tp_num] EXCEPT !.measurements =
                   [p \in DOMAIN @ |-> FinalizeMeasurement(@[p])]]]
    /\ pc' = "parsed"
    /\ UNCHANGED <<error, row, date_val, time_val, colPos, all_timeseries,
                   ts_key, readings, cells>>
    /\ UNCHANGED sheetVars
    /\ UNCHANGED outVars

\* The elements of a finite set of integers in ascending order
RECURSIVE SortedInts(_)
SortedInts(S) ==
    IF S = {} THEN <<>>
    ELSE LET x == CHOOSE k \in S : \A l \in S : k <= l
         IN  <<x>> \o SortedInts(S \ {x})

\* Lines 251-275: the summary entry of one test point
TpSummary(tp_num, data) ==
    [id            |-> tp_num,
     name          |-> data.name,
     location_name |-> data.location_name,
     lat           |-> data.lat,
     lng           |-> data.lng,
     device_type   |-> data.device_type,
     color         |-> IF "color" \in DOMAIN data.device_info
                       THEN data.device_info.color ELSE "#888",
     current_values |->
         [p \in {q \in DOMAIN data.measurements :
                     Truthy(data.measurements[q].avg)} |->
             data.measurements[p].avg],
     statistics |->
         [p \in DOMAIN data.measurements |->
             [min   |-> data.measurements[p].min,
              max   |-> data.measurements[p].max,
              avg   |-> data.measurements[p].avg,
              unit  |-> data.measurements[p].unit,
              count |-> data.measurements[p].count]]]

\* create_summary over the test points that have measurements only
create_summary_observed(tps) ==
    LET ids == SortedInts({k \in DOMAIN tps : tps[k].measurements # EmptyDict})
    IN  [i \in 1..Len(ids) |-> TpSummary(ids[i], tps[ids[i]])]

create_summary(tps) ==
    LET ids == SortedInts(DOMAIN tps)
    IN  [i \in 1..Len(ids) |-> TpSummary(ids[i], tps[ids[i]])]

\* sorted() of a set of strings
RECURSIVE SortedStrs(_)
SortedStrs(S) ==
    IF S = {} THEN <<>>
    ELSE LET x == CHOOSE k \in S : \A l \in S : k = l \/ StrLess(k, l)
         IN  <<x>> \o SortedStrs(S \ {x})

\* Lines 235-240: what a frame shows of one test point
FrameEntry(data) ==
    [temperature |-> PyOr(PyOr(Get(data, "temperature"),
                               Get(data, "air_temperature")),
                          Get(data, "surface_temperature")),
     humidity    |-> PyOr(Get(data, "relative_humidity"),
                          Get(data, "rh_station")),
     wind_speed  |-> Get(data, "wind_speed"),
     solar_radiation |-> Get(data, "solar_radiation")]

create_animation_data(ts) ==
    LET sorted_times == SortedStrs(DOMAIN ts)
    IN  [i \in 1..Len(sorted_times) |->
            [timestamp  |-> sorted_times[i],
             testpoints |-> [tp_num \in DOMAIN ts[sorted_times[i]] |->
                                FrameEntry(ts[sorted_times[i]][tp_num])]]]

\* Line 301: the threshold and the stride of the sampling
SampleThreshold == 100

SampleStride == 10

\* a[::10]
EveryTenth(a) ==
    [i \in 1..((Len(a) + SampleStride - 1) \div SampleStride) |->
        a[(i - 1) * SampleStride + 1]]

\* Sampled with the threshold itself sampled too
SampledFromThreshold(a) == IF Len(a) >= SampleThreshold THEN EveryTenth(a) ELSE a

Sampled(a) == IF Len(a) > SampleThreshold THEN EveryTenth(a) ELSE a

\* main(), lines 294-311: the summary, the animation feed and its sampling
\* are computed from what parse_excel_file returned, and saved
Emit ==
    /\ pc = "parsed"
    /\ summary' = create_summary(testpoints)
    /\ animation_data' = create_animation_data(all_timeseries)
    /\ animation_sampled' = Sampled(animation_data')
    /\ pc' = "done"
    /\ UNCHANGED <<error, row, date_val, time_val, colPos, testpoints,
                   all_timeseries, ts_key, readings, cells>>
    /\ UNCHANGED sheetVars

(***************************************************************************)
(* The workbooks examined.                                                 *)
(***************************************************************************)
MaxSheets == 2

\* The number of test-point cells of a sheet with header row h and mr rows
PlannedCells(h, mr) ==
    (IF RowStop(mr) > 2 THEN RowStop(mr) - 2 ELSE 0)
    * Len(FindTpColumns([i \in 1..Len(h) |-> HeaderText(h[i])], 0))

\* One run over a workbook whose sheet names, header rows, row counts and
\* cell values are drawn from the given sets (the Time cell of row r from
\* times[r], its test-point cells from values[r]), with at most MaxSheets
\* sheets and at most cap cells in the test-point columns of its data rows
Pipeline(names, hdrs, rows, dates, times, values, cap) ==
    \/ \E name \in names, h \in hdrs, mr \in rows :
           /\ pc = "sheets"
           /\ Len(sheetnames) < MaxSheets
           /\ name \notin Range(sheetnames)
           /\ cells + PlannedCells(h, mr) <= cap
           /\ OpenSheet(name, h, mr)
    \/ \E d \in dates, t \in times[row] : ReadRow(d, t)
    \/ \E v \in values[row] : ReadCell(v)
    \/ Finalize
    \/ Emit

hDate == Str(<<"D", "a", "t", "e">>)

hTime == Str(<<"T", "i", "m", "e">>)

hTp1 == Str(<<"T", "e", "s", "t", "p", "o", "i", "n", "t", "-", "1">>)

hTp01 == Str(<<"H", "O", "B", "O", "_", "t", "e", "s", "t", "p", "o", "i", "n", "t", "_", "0", "1">>)

hTp2 == Str(<<"T", "e", "s", "t", "p", "o", "i", "n", "t", "2">>)

hTp14 == Str(<<"T", "e", "s", "t", "p", "o", "i", "n", "t", "-", "1", "4">>)

(***************************************************************************)
(* Spec: small workbooks of up to MaxSheets sheets with up to MaxRow rows, *)
(* with known and unknown test points, two columns of one test point, and  *)
(* Date and Time cells of several types.                                   *)
(***************************************************************************)
MaxRow == 3

MaxCells == 4

SheetNames == {"HOBO_Temp", "Air_temp"}

HeaderRows ==
    { <<hDate, hTime, hTp1, hTp01>>,
      <<hTime, hTp2, hTp14>> }

DateCells == {None, PyInt(45948)}

TimeCells == {None, DateTime(10, 18, 9, 9), TimeOfDay(9, 10)}

AnyTime == [r \in Nat |-> TimeCells]

NoTime == [r \in Nat |-> {None}]

CellValues ==
    {None, Str(<<"x">>), Float(FZero), Float(FromDecimal(45, 1000))}

AnyValue == [r \in Nat |-> CellValues]

OneValue == [r \in Nat |-> {Float(FromDecimal(1, 1))}]

BlankOrOne == [r \in Nat |-> {None, Float(FromDecimal(1, 1))}]

Next ==
    Pipeline(SheetNames, HeaderRows, 1..MaxRow, DateCells, AnyTime,
             AnyValue, MaxCells)

Init == InitRun

Spec == Init /\ [][Next]_vars

(***************************************************************************)
(* SpecRows: one long sheet with a single test-point column whose cells    *)
(* hold 1.0 in the rows around the row limit and nothing before.           *)
(***************************************************************************)
RowSlack == 2

LongRows == (RowLimit - 2)..(RowLimit + RowSlack)

\* The test-point cell of row r: blank, but for the rows around the limit
LastRowsValue ==
    [r \in Nat |-> IF r >= RowLimit - 3 THEN {Float(FromDecimal(1, 1))} ELSE {None}]

NextRows ==
    Pipeline({"HOBO_Temp"}, {<<hTp1>>}, LongRows, {None}, NoTime,
             LastRowsValue, RowLimit)

SpecRows == Init /\ [][NextRows]_vars

(***************************************************************************)
(* SpecSample: one sheet whose data rows carry distinct times, so that a   *)
(* run over mr rows yields mr - 1 frames, for the sampling of line 301.    *)
(***************************************************************************)
MaxFrames == 125

\* The Time cell of row r: one minute per row
FrameTime == [r \in Nat |-> {TimeOfDay(r \div 60, r % 60)}]

NextSample ==
    Pipeline({"HOBO_Temp"}, {<<hTime, hTp1>>}, 1..(MaxFrames + 1), {None},
             FrameTime, OneValue, MaxFrames)

SpecSample == Init /\ [][NextSample]_vars

(***************************************************************************)
(* SpecHdr: one sheet with one data row whose second header is put         *)
(* together from pieces, for the detection of test-point columns.          *)
(***************************************************************************)
HdrPrefixes == {<<>>, <<"H", "O", "B", "O", "_">>}

HdrWords ==
    { <<"T", "e", "s", "t", "p", "o", "i", "n", "t">>,
      <<"t", "e", "s", "t", "p", "o", "i", "n", "t">>,
      <<"T", "E", "S", "T", "P", "O", "I", "N", "T">>,
      <<"T", "e", "s", "t", "p", "o", "i", "n">> }

HdrSeparators == {<<>>, <<"-">>, <<"_">>, <<" ">>, <<"-", "_">>}

HdrDigits ==
    {<<>>, <<"0">>, <<"7">>, <<"0", "7">>, <<"0", "0">>, <<"1", "2">>}

HdrSuffixes ==
    { <<>>, <<"a">>, <<"_", "3">>,
      <<" ", "t", "e", "s", "t", "p", "o", "i", "n", "t", "5">> }

HeaderTexts ==
    { Str(p \o w \o sep \o d \o x) :
        p \in HdrPrefixes, w \in HdrWords, sep \in HdrSeparators,
        d \in HdrDigits, x \in HdrSuffixes }

NextHdr ==
    Pipeline({"HOBO_Temp"}, {<<hTime, h>> : h \in HeaderTexts \cup {None}},
             {2}, {None}, AnyTime, BlankOrOne, 1)

SpecHdr == Init /\ [][NextHdr]_vars

(***************************************************************************)
(* SpecTs: normalize_timestamp called on one pair of Date and Time cell    *)
(* values, the strings among them being all strings of up to MaxStrLen     *)
(* characters of TsAlphabet and a few longer ones.                         *)
(***************************************************************************)
MaxStrLen == 3

TsAlphabet == {"9", ":", "a"}

TsStrings == UNION {[1..k -> TsAlphabet] : k \in 0..MaxStrLen}

TsTimes ==
    { None, PyInt(9), TimeOfDay(9, 10), DateTime(10, 18, 9, 9),
      Str(<<"0", "9", ":", "1", "0", ":", "3", "0">>),
      Str(<<" ", "7", " ", ":", "0", "8">>) }
    \cup {Str(str) : str \in TsStrings}

TsDates ==
    { None, PyInt(0), PyInt(45948), Float(FromDecimal(4594875, 100)),
      DateTime(10, 18, 0, 0), Str(<<"1", "0", "-", "1", "8">>),
      PyInt(3000000) }

InitTs ==
    /\ pc = "ts"
    /\ error = None
    /\ sheetnames = <<>>
    /\ param_name = "" /\ param_unit = ""
    /\ headers = <<>> /\ max_row = 0 /\ tp_columns = <<>>
    /\ row = 0 /\ colPos = 0
    /\ date_val \in TsDates
    /\ time_val \in TsTimes
    /\ testpoints = InitialTestpoints
    /\ all_timeseries = EmptyDict
    /\ summary = None /\ animation_data = None /\ animation_sampled = None
    /\ ts_key = None
    /\ readings = <<>>
    /\ cells = 0

\* Line 195: ts_key = normalize_timestamp(date_val, time_val)
CallNormalize ==
    /\ pc = "ts"
    /\ ts_key' = normalize_timestamp(date_val, time_val)
    /\ error' = IF ts_key'.t = "raise" THEN ts_key' ELSE error
    /\ pc' = "ts_done"
    /\ UNCHANGED <<row, date_val, time_val, colPos, testpoints,
                   all_timeseries, readings, cells>>
    /\ UNCHANGED sheetVars
    /\ UNCHANGED outVars

NextTs == CallNormalize

SpecTs == InitTs /\ [][NextTs]_vars

(***************************************************************************)
(* The properties.                                                         *)
(***************************************************************************)

\* What version 1 (parse_weather_data.py, lines 120-121) gives a test point
\* that the static tables do not hold
DefaultCoordinate == [lat |-> 224180, lng |-> 1142060]

UnknownDevice == "Unknown"

\* C1: a numeric reading in a column whose test-point id is not in the
\* static coordinate table does not abort the run: the reading goes to a
\* test point with the default coordinate and the "Unknown" device.
C1_UnknownIdFallsBack ==
    /\ error # Raised("KeyError")
    /\ \A i \in 1..Len(readings) :
           readings[i].tp \notin DOMAIN TESTPOINT_COORDINATES =>
               /\ readings[i].tp \in DOMAIN testpoints
               /\ testpoints[readings[i].tp].lat = DefaultCoordinate.lat
               /\ testpoints[readings[i].tp].lng = DefaultCoordinate.lng
               /\ testpoints[readings[i].tp].device_type = UnknownDevice

\* A number was read in a column whose id the static table does not hold
C1_UnknownIdRead ==
    /\ pc = "aborted"
    /\ cells > 0
    /\ tp_columns[colPos].tp_num \notin DOMAIN TESTPOINT_COORDINATES

\* C2: the summary a run emits holds exactly one entry for every id of the
\* static coordinate table, with the table's coordinates and device type,
\* and with an empty statistics map when nothing was read for that id.
C2_SummaryCoversTable ==
    pc = "done" =>
        /\ Len(summary) = Len(TESTPOINT_COORDINATES)
        /\ \A id \in DOMAIN TESTPOINT_COORDINATES :
               /\ Cardinality({i \in 1..Len(summary) : summary[i].id = id}) = 1
               /\ \A i \in 1..Len(summary) :
                      summary[i].id = id =>
                          /\ summary[i].lat = TESTPOINT_COORDINATES[id].lat
                          /\ summary[i].lng = TESTPOINT_COORDINATES[id].lng
                          /\ summary[i].device_type = TESTPOINT_COORDINATES[id].type
                          /\ (\A k \in 1..Len(readings) : readings[k].tp # id)
                                 => summary[i].statistics = EmptyDict

\* A summary in which one test point has statistics and another has none
C2_SomeMatchedSomeNot ==
    /\ pc = "done"
    /\ \E i \in 1..Len(summary) : summary[i].statistics # EmptyDict
    /\ \E i \in 1..Len(summary) : summary[i].statistics = EmptyDict

\* The sum of the first n readings that went to (tp, p), added in order
RECURSIVE RunningSum(_, _, _)
RunningSum(tp, p, n) ==
    IF n = 0 THEN PyInt(0)
    ELSE LET before == RunningSum(tp, p, n - 1)
         IN  IF readings[n].tp = tp /\ readings[n].param = p
             THEN Float(FAdd(AsDouble(before), AsDouble(readings[n].value)))
             ELSE before

\* C3: after finalization every (test point, parameter) with count > 0 has
\* min <= avg <= max, and avg is the running sum divided by the count,
\* rounded to 2 decimals.
C3_AvgBetweenMinAndMax ==
    pc \in {"parsed", "done"} =>
        \A tp \in DOMAIN testpoints :
            \A p \in DOMAIN testpoints[tp].measurements :
                LET m == testpoints[tp].measurements[p]
                IN  m.count > 0 =>
                        /\ FLeq(AsDouble(m.min), AsDouble(m.avg))
                        /\ FLeq(AsDouble(m.avg), AsDouble(m.max))
                        /\ m.avg = Float(Round2(FDivInt(
                               AsDouble(RunningSum(tp, p, Len(readings))),
                               m.count)))

\* A finalized aggregate of three or more readings
C3_ThreeReadings ==
    /\ pc = "done"
    /\ \E tp \in DOMAIN testpoints :
           \E p \in DOMAIN testpoints[tp].measurements :
               testpoints[tp].measurements[p].count >= 3

\* The number of readings that went to (tp, p)
Observed(tp, p) ==
    Cardinality({i \in 1..Len(readings) :
                     readings[i].tp = tp /\ readings[i].param = p})

\* C4: a statistics map holds a parameter only if a numeric reading was
\* observed for that (test point, parameter); a pair without one is absent,
\* and every entry has count >= 1, the number of its readings.
C4_OnlyObservedParameters ==
    /\ \A tp \in DOMAIN testpoints :
           \A p \in DOMAIN testpoints[tp].measurements :
               /\ testpoints[tp].measurements[p].count >= 1
               /\ testpoints[tp].measurements[p].count = Observed(tp, p)
    /\ pc = "done" =>
           \A i \in 1..Len(summary) :
               \A p \in DOMAIN summary[i].statistics :
                   /\ summary[i].statistics[p].count >= 1
                   /\ summary[i].statistics[p].count = Observed(summary[i].id, p)

\* A run of two sheets in which a test-point cell held no number and
\* another held one
C4_SomeCellsNotNumeric ==
    /\ pc = "done"
    /\ Len(sheetnames) = 2
    /\ Len(readings) >= 1
    /\ cells > Len(readings)
    /\ \E i \in 1..Len(summary) : Cardinality(DOMAIN summary[i].statistics) = 1

FirstNonNull(vals) ==
    IF \A i \in 1..Len(vals) : vals[i] = None THEN None
    ELSE vals[CHOOSE i \in 1..Len(vals) :
                  vals[i] # None /\ \A j \in 1..(i - 1) : vals[j] = None]

\* C6: in every frame each test point's temperature is the first non-null
\* of its temperature, air_temperature and surface_temperature at that
\* timestamp, and its humidity the first non-null of relative_humidity and
\* rh_station, zero included.
C6_FirstNonNullOfSources ==
    pc = "done" =>
        \A i \in 1..Len(animation_data) :
            \A tp \in DOMAIN animation_data[i].testpoints :
                LET data == all_timeseries[animation_data[i].timestamp][tp]
                    shown == animation_data[i].testpoints[tp]
                IN  /\ shown.temperature =
                           FirstNonNull(<<Get(data, "temperature"),
                                          Get(data, "air_temperature"),
                                          Get(data, "surface_temperature")>>)
                    /\ shown.humidity =
                           FirstNonNull(<<Get(data, "relative_humidity"),
                                          Get(data, "rh_station")>>)

\* A frame for a test point whose temperature at that timestamp is 0
C6_ZeroTemperature ==
    /\ pc = "done"
    /\ \E i \in 1..Len(animation_data) :
           \E tp \in DOMAIN animation_data[i].testpoints :
               Get(all_timeseries[animation_data[i].timestamp][tp],
                   "temperature") = Float(FZero)

\* C7: in the summary, every parameter of a test point's statistics with
\* count > 0 is in its current values, with the parameter's average as the
\* value, whatever the average is.
C7_CurrentIsAverage ==
    pc = "done" =>
        \A i \in 1..Len(summary) :
            \A p \in DOMAIN summary[i].statistics :
                summary[i].statistics[p].count > 0 =>
                    /\ p \in DOMAIN summary[i].current_values
                    /\ summary[i].current_values[p] = summary[i].statistics[p].avg

\* A summary with a parameter whose average is 0
C7_ZeroAverage ==
    /\ pc = "done"
    /\ \E i \in 1..Len(summary) :
           \E p \in DOMAIN summary[i].statistics :
               /\ summary[i].statistics[p].count > 0
               /\ summary[i].statistics[p].avg = Float(FZero)

\* The least n with 10 * n >= len
CeilTenth(len) == CHOOSE n \in 0..len : 10 * n >= len /\ 10 * (n - 1) < len

\* C8: an animation sequence of length L > 100 is emitted as its elements
\* at positions 0, 10, 20, ..., ceil(L/10) of them in the original order;
\* one of length L <= 100 is emitted unchanged.
C8_EveryTenthAbove100 ==
    pc = "done" =>
        IF Len(animation_data) > 100
        THEN /\ Len(animation_sampled) = CeilTenth(Len(animation_data))
             /\ \A j \in 0..(Len(animation_sampled) - 1) :
                    animation_sampled[j + 1] = animation_data[10 * j + 1]
        ELSE animation_sampled = animation_data

\* A sequence of more than 100 frames, not a multiple of 10, was sampled
C8_LongSequence ==
    /\ pc = "done"
    /\ Len(animation_data) > 100
    /\ Len(animation_data) % 10 # 0

\* Where the digits start if the text of h from position i is, in any
\* letter case, "Testpoint", an optional '-' or '_', and a digit; else 0
DigitsAfterWord(h, i) ==
    IF i + 8 > Len(h) THEN 0
    ELSE IF PyLower(SubSeq(h, i, i + 8)) # PyLower(<<"T", "e", "s", "t", "p", "o", "i", "n", "t">>)
    THEN 0
    ELSE IF i + 9 <= Len(h) /\ IsDigit(h[i + 9]) THEN i + 9
    ELSE IF i + 10 <= Len(h) /\ h[i + 9] \in {"-", "_"} /\ IsDigit(h[i + 10])
    THEN i + 10
    ELSE 0

HasPattern(h) == \E i \in 1..Len(h) : DigitsAfterWord(h, i) # 0

\* The integer value of the digit run of the first occurrence of the pattern
RECURSIVE RunValue(_, _, _)
RunValue(h, j, acc) ==
    IF j > Len(h) \/ ~IsDigit(h[j]) THEN acc
    ELSE RunValue(h, j + 1, 10 * acc + DigitVal(h[j]))

FirstId(h) ==
    LET i == CHOOSE k \in 1..Len(h) :
                 /\ DigitsAfterWord(h, k) # 0
                 /\ \A l \in 1..(k - 1) : DigitsAfterWord(h, l) = 0
    IN  RunValue(h, DigitsAfterWord(h, i), 0)

\* C9: a header column is registered as a test-point column if and only if
\* its text holds, in any letter case, "Testpoint", an optional '-' or '_'
\* and one or more digits; its id is then the integer value of the first
\* such digit run, for every digit string.
C9_RegisteredIffPattern ==
    \A c \in 1..Len(headers) :
        LET cols == {k \in 1..Len(tp_columns) : tp_columns[k].col_idx = c - 1}
        IN  IF HasPattern(headers[c])
            THEN \E k \in cols : tp_columns[k].tp_num = FirstId(headers[c])
            ELSE cols = {}

\* A sheet with a header that holds the pattern with a digit run of value 0
C9_HeaderOfIdZero ==
    /\ pc = "done"
    /\ \E c \in 1..Len(headers) :
           HasPattern(headers[c]) /\ FirstId(headers[c]) = 0

\* The rows of the current sheet whose readings were taken
RowsRead == {readings[i].row : i \in 1..Len(readings)}

\* The rows up to row index last are read in ascending order, each once,
\* and at the end of the sheet no other row has been read
ReadThrough(last) ==
    /\ \A i, j \in 1..Len(readings) : i < j => readings[i].row < readings[j].row
    /\ pc = "cell" => cells = row - 2
    /\ pc \in {"parsed", "done"} =>
           /\ cells = Min2(max_row, last) - 1
           /\ RowsRead = {r \in 2..Min2(max_row, last) : LastRowsValue[r] # {None}}

\* C10 (as the code has it): the rows of a sheet are processed in ascending
\* order from row index 2 and none after row index 2999: a sheet with N
\* data rows contributes its first min(N, 2998) data rows.
C10_First2998Rows == ReadThrough(2999)

\* C10 (as stated): ... bounded at a maximum of 3000 rows per sheet: a sheet
\* with N data rows contributes its first min(N, 3000) data rows.
C10_First3000Rows == ReadThrough(3001)

\* A sheet of more than 3000 rows was read to its end
C10_SheetBeyondLimit ==
    /\ pc = "done"
    /\ max_row > 3000

(***************************************************************************)
(* SpecErr: one sheet with a Date, a Time and one test-point column, whose *)
(* Date cells may hold a serial number beyond the last date datetime can   *)
(* represent.                                                              *)
(***************************************************************************)
ErrDates == {None, PyInt(45948), PyInt(3000000)}

NextErr ==
    Pipeline({"HOBO_Temp"}, {<<hDate, hTime, hTp1>>}, 1..MaxRow, ErrDates,
             AnyTime, BlankOrOne, MaxCells)

SpecErr == Init /\ [][NextErr]_vars

\* C11: a failure while assembling a timestamp from a row's Date and Time
\* cells is caught and treated as "no timestamp": the run continues, the
\* row's numeric readings are aggregated, and no exception leaves the
\* extraction loop.
C11_TimestampFailureCaught ==
    /\ pc # "aborted"
    /\ error = None
    /\ \A i \in 1..Len(readings) : readings[i].ts.t # "raise"

\* A number was read in a row whose Date cell is beyond datetime's range
C11_DateOutOfRange ==
    /\ readings # <<>>
    /\ date_val = PyInt(3000000)
    /\ time_val.t # "datetime"
    /\ readings[Len(readings)].row = row

\* The reading a step has just taken
Taken == readings'[Len(readings')]

\* The aggregate of (tp, p) before a step, as lines 179-186 start it
Before(tp, p) ==
    IF p \in DOMAIN testpoints[tp].measurements
    THEN testpoints[tp].measurements[p]
    ELSE [min |-> Float(PosInf), max |-> Float(NegInf), sum |-> PyInt(0),
          count |-> 0]

\* A step that takes a reading updates min, max, sum and count of its pair,
\* and leaves the time-keyed structure alone if the row has no timestamp
ReadingAggregated ==
    Len(readings') > Len(readings) =>
        /\ Taken.param \in DOMAIN testpoints'[Taken.tp].measurements
        /\ LET old == Before(Taken.tp, Taken.param)
               new == testpoints'[Taken.tp].measurements[Taken.param]
           IN  /\ new.count = old.count + 1
               /\ AsDouble(new.sum) = FAdd(AsDouble(old.sum), AsDouble(Taken.value))
               /\ new.min \in {old.min, Taken.value}
               /\ FLeq(AsDouble(new.min), AsDouble(old.min))
               /\ FLeq(AsDouble(new.min), AsDouble(Taken.value))
               /\ new.max \in {old.max, Taken.value}
               /\ FLeq(AsDouble(old.max), AsDouble(new.max))
               /\ FLeq(AsDouble(Taken.value), AsDouble(new.max))
        /\ Taken.ts = None => all_timeseries' = all_timeseries

\* Every key, test point and parameter of the time-keyed structure, and
\* every frame of the feed, comes from a reading whose row has a timestamp
OnlyTimedReadingsKeyed ==
    /\ \A key \in DOMAIN all_timeseries :
           \A tp \in DOMAIN all_timeseries[key] :
               \A p \in DOMAIN all_timeseries[key][tp] :
                   \E i \in 1..Len(readings) :
                       /\ readings[i].ts = Str(key)
                       /\ readings[i].tp = tp
                       /\ readings[i].param = p
    /\ pc = "done" =>
           \A i \in 1..Len(animation_data) :
               /\ animation_data[i].timestamp \in DOMAIN all_timeseries
               /\ DOMAIN animation_data[i].testpoints =
                      DOMAIN all_timeseries[animation_data[i].timestamp]

\* C12: every numeric reading in a test-point column updates the min, max,
\* sum and count of its (test point, parameter) whether or not its row has
\* a timestamp; a reading of a row without one adds no key and no value to
\* the time-keyed structure and so is in no frame of the animation feed.
C12_AggregatedWithOrWithoutTimestamp ==
    [][ReadingAggregated]_vars /\ []OnlyTimedReadingsKeyed

\* A run that took a reading without a timestamp and one with a timestamp
C12_ReadingWithoutTimestamp ==
    /\ pc = "done"
    /\ \E i \in 1..Len(readings) : readings[i].ts = None
    /\ \E i \in 1..Len(readings) : readings[i].ts # None

\* Two sheets of the same parameter, two columns of test point 1
DupSheets == {"HOBO_Temp", "Temperature"}

DupHeaders == {<<hTime, hTp1, hTp01>>}

DupValues == [r \in Nat |-> {None, Float(FZero), Float(FromDecimal(45, 1000))}]

NextDup ==
    Pipeline(DupSheets, DupHeaders, 1..MaxRow, {None}, AnyTime, DupValues,
             MaxCells)

SpecDup == Init /\ [][NextDup]_vars

\* The readings of (key, tp, p), by position in the processing order
ReadingsOf(key, tp, p) ==
    {i \in 1..Len(readings) :
         /\ readings[i].ts = Str(key)
         /\ readings[i].tp = tp
         /\ readings[i].param = p}

Latest(S) == CHOOSE i \in S : \A j \in S : j <= i

\* Sheets, then rows, then columns: the order in which readings are taken
InProcessingOrder ==
    \A i, j \in 1..Len(readings) :
        i < j =>
            \/ readings[i].sheet < readings[j].sheet
            \/ /\ readings[i].sheet = readings[j].sheet
               /\ readings[i].row < readings[j].row
            \/ /\ readings[i].sheet = readings[j].sheet
               /\ readings[i].row = readings[j].row
               /\ readings[i].col < readings[j].col

\* C13: the value stored for a (timestamp, test point, parameter) is the
\* value of the most recently processed reading with that triple, in sheet,
\* then row, then column order; earlier readings of the triple are
\* overwritten there, and each of them still counts once in the aggregate.
C13_LastWriteWins ==
    /\ InProcessingOrder
    /\ \A key \in DOMAIN all_timeseries :
           \A tp \in DOMAIN all_timeseries[key] :
               \A p \in DOMAIN all_timeseries[key][tp] :
                   /\ ReadingsOf(key, tp, p) # {}
                   /\ all_timeseries[key][tp][p] =
                          readings[Latest(ReadingsOf(key, tp, p))].value
    /\ \A i \in 1..Len(readings) :
           readings[i].ts.t = "str" =>
               /\ readings[i].ts.s \in DOMAIN all_timeseries
               /\ readings[i].tp \in DOMAIN all_timeseries[readings[i].ts.s]
               /\ readings[i].param \in
                      DOMAIN all_timeseries[readings[i].ts.s][readings[i].tp]
    /\ \A tp \in DOMAIN testpoints :
           \A p \in DOMAIN testpoints[tp].measurements :
               testpoints[tp].measurements[p].count = Observed(tp, p)

\* Two readings of one (timestamp, test point, parameter) with different
\* values, taken from different sheets
C13_DuplicateTriple ==
    /\ pc = "done"
    /\ \E i, j \in 1..Len(readings) :
           /\ i < j
           /\ readings[i].ts.t = "str"
           /\ readings[i].ts = readings[j].ts
           /\ readings[i].tp = readings[j].tp
           /\ readings[i].param = readings[j].param
           /\ readings[i].value # readings[j].value
           /\ readings[i].sheet < readings[j].sheet
           /\ testpoints[readings[i].tp].measurements[readings[i].param].count >= 2
====
